---------------------------- MODULE Spec2Model ----------------------------
(***************************************************************************)
(* Model of normalize.py: a table of string cells is loaded, a rule        *)
(* document is loaded and validated, and the rules are applied to the      *)
(* table column by column with three matchers (substitution, wildcard,     *)
(* regex).                                                                 *)
(*                                                                         *)
(* Representation of Python values                                         *)
(*   str    a sequence of one-character strings: "5kg" is <<"5","k","g">>  *)
(*   find   a tagged value: [kind |-> "list", v |-> <<str, ...>>] for a    *)
(*          YAML sequence, [kind |-> "str", s |-> str] for a YAML scalar   *)
(*   dict   a record; a missing key is a missing field                     *)
(*   Series a sequence of str (one column of the DataFrame)                *)
(*   a call that may raise returns [exc |-> "", val |-> v] on a normal     *)
(*          return and [exc |-> <exception class>] otherwise               *)
(***************************************************************************)
EXTENDS Integers, Sequences, FiniteSets, TLC

(***************************************************************************)
(* Characters.  string.punctuation is the 32 ASCII punctuation characters  *)
(* (the backquote, which a TLA+ string cannot hold and no input below      *)
(* uses, is left out).                                                     *)
(***************************************************************************)
string_punctuation ==
    {"!", "\"", "#", "$", "%", "&", "'", "(", ")", "*", "+", ",", "-", ".",
     "/", ":", ";", "<", "=", ">", "?", "@", "[", "\\", "]", "^", "_",
     "{", "|", "}", "~"}

Whitespace == {" "}

\* str.lower() on one character, as re.IGNORECASE compares characters
lower(c) ==
    CASE c = "A" -> "a"
      [] c = "B" -> "b"
      [] c = "C" -> "c"
      [] OTHER -> c

RECURSIVE Flatten(_)
\* concatenation of a sequence of sequences, in order
Flatten(ss) ==
    IF ss = <<>> THEN <<>> ELSE Head(ss) \o Flatten(Tail(ss))

\* str.strip(): leading and trailing whitespace removed
RECURSIVE lstrip(_)
lstrip(s) ==
    IF s # <<>> /\ Head(s) \in Whitespace THEN lstrip(Tail(s)) ELSE s

RECURSIVE rstrip(_)
rstrip(s) ==
    IF s # <<>> /\ s[Len(s)] \in Whitespace
    THEN rstrip(SubSeq(s, 1, Len(s) - 1))
    ELSE s

str_strip(s) == rstrip(lstrip(s))

(***************************************************************************)
(* Regular expressions: the subset of Python's re syntax made of literal   *)
(* characters, ".", capture groups "(" ")", alternation "|" and the        *)
(* quantifiers "*" and "?" (greedy, or lazy when followed by "?").  Every  *)
(* pattern of the inputs below is in this subset ("(" is never followed by *)
(* "?", which in Python opens an extension).                               *)
(*                                                                         *)
(* A parse returns [ok, node, pos, ng]: the node parsed, the position of   *)
(* the next character, and the number of groups opened so far.  A value    *)
(* used several times is handed on as a parameter.                         *)
(***************************************************************************)
ParseError == [ok |-> FALSE]

RECURSIVE ParseAlt(_, _, _), ParseCat(_, _, _, _)

\* the ")" that must follow the body of a group
CloseGroup(p, n, body) ==
    IF ~body.ok THEN ParseError
    ELSE IF body.pos > Len(p) \/ p[body.pos] # ")"
    THEN ParseError  \* missing ), unterminated subpattern
    ELSE [ok |-> TRUE, node |-> [t |-> "grp", n |-> n, e |-> body.node],
          pos |-> body.pos + 1, ng |-> body.ng]

ParseAtom(p, i, ng) ==
    CASE p[i] = "(" -> CloseGroup(p, ng + 1, ParseAlt(p, i + 1, ng + 1))
      [] p[i] \in {"*", "?"} -> ParseError  \* nothing to repeat
      [] p[i] = "." -> [ok |-> TRUE, node |-> [t |-> "any"], pos |-> i + 1, ng |-> ng]
      [] OTHER -> [ok |-> TRUE, node |-> [t |-> "chr", c |-> p[i]], pos |-> i + 1, ng |-> ng]

\* the quantifier that may follow an atom
Quantified(p, atom) ==
    IF ~atom.ok THEN ParseError
    ELSE IF atom.pos > Len(p) \/ p[atom.pos] \notin {"*", "?"} THEN atom
    ELSE LET q == atom.pos
             lazy == q + 1 <= Len(p) /\ p[q + 1] = "?"
             after == IF lazy THEN q + 2 ELSE q + 1
         IN  IF after <= Len(p) /\ p[after] \in {"*", "?"}
             THEN ParseError  \* multiple repeat
             ELSE [ok |-> TRUE,
                   node |-> [t |-> IF p[q] = "*" THEN "star" ELSE "opt",
                             greedy |-> ~lazy, e |-> atom.node],
                   pos |-> after, ng |-> atom.ng]

ParseItem(p, i, ng) == Quantified(p, ParseAtom(p, i, ng))

CatNext(p, acc, item) ==
    IF ~item.ok THEN ParseError
    ELSE ParseCat(p, item.pos, item.ng, Append(acc, item.node))

\* a concatenation: items up to the end of the pattern, a "|" or a ")"
ParseCat(p, i, ng, acc) ==
    IF i > Len(p) \/ p[i] \in {"|", ")"}
    THEN [ok |-> TRUE, node |-> [t |-> "cat", es |-> acc], pos |-> i, ng |-> ng]
    ELSE CatNext(p, acc, ParseItem(p, i, ng))

AltJoin(first, rest) ==
    IF ~rest.ok THEN ParseError
    ELSE [ok |-> TRUE, node |-> [t |-> "alt", l |-> first.node, r |-> rest.node],
          pos |-> rest.pos, ng |-> rest.ng]

AltRest(p, first) ==
    IF ~first.ok THEN ParseError
    ELSE IF first.pos > Len(p) \/ p[first.pos] # "|" THEN first
    ELSE AltJoin(first, ParseAlt(p, first.pos + 1, first.ng))

\* an alternation: concatenations separated by "|"
ParseAlt(p, i, ng) == AltRest(p, ParseCat(p, i, ng, <<>>))

Compiled(pattern, ignorecase, parsed) ==
    IF ~parsed.ok \/ parsed.pos <= Len(pattern)  \* a ")" left over: unbalanced parenthesis
    THEN [exc |-> "re.error"]
    ELSE [exc |-> "", node |-> parsed.node, groups |-> parsed.ng,
          ignorecase |-> ignorecase]

\* re.compile(pattern, flags): a compiled pattern, or re.error
re_compile(pattern, ignorecase) ==
    Compiled(pattern, ignorecase, ParseAlt(pattern, 1, 0))

(***************************************************************************)
(* Matching.  Match(node, s, i, g, ic) is the sequence of ways node can    *)
(* match s from position i, in the order the backtracking matcher tries    *)
(* them; each is [j, g]: the position after the match and the span of      *)
(* group 1 (<<>> while the group has not taken part).                      *)
(***************************************************************************)
RECURSIVE Match(_, _, _, _, _), MatchCat(_, _, _, _, _)

\* the ways the rest of a concatenation matches after each way in rs
MatchEach(es, s, rs, ic) ==
    Flatten([k \in 1..Len(rs) |-> MatchCat(es, s, rs[k].j, rs[k].g, ic)])

MatchCat(es, s, i, g, ic) ==
    IF es = <<>> THEN <<[j |-> i, g |-> g]>>
    ELSE MatchEach(Tail(es), s, Match(Head(es), s, i, g, ic), ic)

\* the ways of a group: those of its body, group 1 recording its span
GroupWays(node, i, rs) ==
    [k \in 1..Len(rs) |->
        [j |-> rs[k].j, g |-> IF node.n = 1 THEN <<i, rs[k].j>> ELSE rs[k].g]]

\* first and second in the order the quantifier prefers
Prefer(greedy, first, second) ==
    IF greedy THEN first \o second ELSE second \o first

\* after one more repetition: repeat again, unless it consumed nothing
StarMore(node, s, i, ic, once) ==
    Flatten([k \in 1..Len(once) |->
        IF once[k].j > i
        THEN Match(node, s, once[k].j, once[k].g, ic)
        ELSE <<once[k]>>])

Match(node, s, i, g, ic) ==
    CASE node.t = "chr" ->
           IF i <= Len(s) /\ (IF ic THEN lower(s[i]) = lower(node.c) ELSE s[i] = node.c)
           THEN <<[j |-> i + 1, g |-> g]>> ELSE <<>>
      [] node.t = "any" ->
           IF i <= Len(s) THEN <<[j |-> i + 1, g |-> g]>> ELSE <<>>
      [] node.t = "grp" -> GroupWays(node, i, Match(node.e, s, i, g, ic))
      [] node.t = "cat" -> MatchCat(node.es, s, i, g, ic)
      [] node.t = "alt" -> Match(node.l, s, i, g, ic) \o Match(node.r, s, i, g, ic)
      [] node.t = "opt" ->
           Prefer(node.greedy, Match(node.e, s, i, g, ic), <<[j |-> i, g |-> g]>>)
      [] node.t = "star" ->
           Prefer(node.greedy, StarMore(node, s, i, ic, Match(node.e, s, i, g, ic)),
                  <<[j |-> i, g |-> g]>>)

NoMatch == [found |-> FALSE]

RECURSIVE FirstAdvancing(_, _)
\* the first way that consumes at least one character
FirstAdvancing(rs, i) ==
    IF rs = <<>> THEN NoMatch
    ELSE IF Head(rs).j > i
    THEN [found |-> TRUE, start |-> i, end |-> Head(rs).j, g |-> Head(rs).g]
    ELSE FirstAdvancing(Tail(rs), i)

\* the way taken at i: the first, or with must_advance the first that is not empty
WayTaken(rs, i, must_advance) ==
    IF must_advance THEN FirstAdvancing(rs, i)
    ELSE IF rs = <<>> THEN NoMatch
    ELSE [found |-> TRUE, start |-> i, end |-> rs[1].j, g |-> rs[1].g]

RECURSIVE SearchFrom(_, _, _, _)

SearchNext(compiled, s, i, hit) ==
    IF hit.found THEN hit ELSE SearchFrom(compiled, s, i + 1, FALSE)

\* the leftmost match starting at i or later; with must_advance an empty
\* match at i itself is not taken
SearchFrom(compiled, s, i, must_advance) ==
    IF i > Len(s) + 1 THEN NoMatch
    ELSE SearchNext(compiled, s, i,
             WayTaken(Match(compiled.node, s, i, <<>>, compiled.ignorecase), i, must_advance))

\* re.search(pattern, string): whether the pattern matches somewhere
re_search(compiled, s) == SearchFrom(compiled, s, 1, FALSE).found

(***************************************************************************)
(* str.format(text=...) on the replace template: "{text}" is filled,       *)
(* "{{" and "}}" are literal braces, any other field or a single brace     *)
(* raises.  Fields with a conversion or a format spec are not modelled; no *)
(* template below has one.                                                 *)
(***************************************************************************)
Returned(v) == [exc |-> "", val |-> v]

RECURSIVE ClosingBrace(_, _)
\* the position of the first "}" at or after i, or 0
ClosingBrace(t, i) ==
    IF i > Len(t) THEN 0
    ELSE IF t[i] = "}" THEN i
    ELSE ClosingBrace(t, i + 1)

RECURSIVE FormatFrom(_, _, _, _)

\* a replacement field opened at i and closed at close
FormatField(t, i, text, acc, close) ==
    IF close = 0 THEN [exc |-> "ValueError"]
    ELSE IF SubSeq(t, i + 1, close - 1) = <<"t", "e", "x", "t">>
    THEN FormatFrom(t, close + 1, text, acc \o text)
    ELSE IF close = i + 1 THEN [exc |-> "IndexError"]  \* "{}": a positional field
    ELSE [exc |-> "KeyError"]

FormatFrom(t, i, text, acc) ==
    IF i > Len(t) THEN Returned(acc)
    ELSE IF t[i] = "{" THEN
        IF i < Len(t) /\ t[i + 1] = "{" THEN FormatFrom(t, i + 2, text, Append(acc, "{"))
        ELSE FormatField(t, i, text, acc, ClosingBrace(t, i + 1))
    ELSE IF t[i] = "}" THEN
        IF i < Len(t) /\ t[i + 1] = "}" THEN FormatFrom(t, i + 2, text, Append(acc, "}"))
        ELSE [exc |-> "ValueError"]
    ELSE FormatFrom(t, i + 1, text, Append(acc, t[i]))

str_format(template, text) == FormatFrom(template, 1, text, <<>>)

\* match.group(1): the text of group 1, None when the group took no part in
\* the match, IndexError when the pattern has no group
match_group1(compiled, m, s) ==
    IF compiled.groups < 1 THEN [exc |-> "IndexError"]
    ELSE IF m.g = <<>> THEN [exc |-> "", none |-> TRUE, val |-> <<>>]
    ELSE [exc |-> "", none |-> FALSE, val |-> SubSeq(s, m.g[1], m.g[2] - 1)]

\* replace.format(text=group1 if group1 else "")
FormatGroup(replace, group1) ==
    IF group1.exc # "" THEN [exc |-> group1.exc]
    ELSE str_format(replace, IF ~group1.none /\ group1.val # <<>> THEN group1.val ELSE <<>>)

\* lambda match: replace.format(text=match.group(1) if match.group(1) else "")
repl(compiled, replace, m, s) ==
    FormatGroup(replace, match_group1(compiled, m, s))

(***************************************************************************)
(* re.sub(compiled, repl, string) with the callable above: every           *)
(* non-overlapping match, leftmost first, is replaced by repl(match); an   *)
(* empty match is not taken where the previous match, itself empty, ended; *)
(* the first exception repl raises ends the call.                          *)
(***************************************************************************)
RECURSIVE SubFrom(_, _, _, _, _, _)

SubReplaced(compiled, replace, s, i, acc, m, r) ==
    IF r.exc # "" THEN r
    ELSE SubFrom(compiled, replace, s, m.end, m.end = m.start,
                 acc \o SubSeq(s, i, m.start - 1) \o r.val)

SubMatch(compiled, replace, s, i, acc, m) ==
    IF ~m.found THEN Returned(acc \o SubSeq(s, i, Len(s)))
    ELSE SubReplaced(compiled, replace, s, i, acc, m, repl(compiled, replace, m, s))

SubFrom(compiled, replace, s, i, must_advance, acc) ==
    SubMatch(compiled, replace, s, i, acc, SearchFrom(compiled, s, i, must_advance))

re_sub(compiled, replace, s) == SubFrom(compiled, replace, s, 1, FALSE, <<>>)

(***************************************************************************)
(* The three matchers.                                                     *)
(***************************************************************************)
\* isinstance(v, list)
isinstance_list(v) == v.kind = "list"

\* "for f in find": the entries of a list, the characters of a str
iterate(v) ==
    IF v.kind = "list" THEN v.v ELSE [k \in 1..Len(v.s) |-> <<v.s[k]>>]

\* a mutation of apply_substitution_pattern: the cell is compared unstripped
apply_substitution_pattern_unstripped(column_data, find, replace) ==
    LET find_list == IF ~isinstance_list(find) THEN <<find.s>> ELSE find.v
    IN  IF column_data = <<>> THEN Returned(<<>>)
        ELSE IF find_list = <<>> THEN [exc |-> "IndexError"]
        ELSE Returned([r \in 1..Len(column_data) |->
                 IF column_data[r] = find_list[1]
                 THEN <<>>
                 ELSE column_data[r]])

apply_substitution_pattern(column_data, find, replace) ==
    LET find_list == IF ~isinstance_list(find) THEN <<find.s>> ELSE find.v
    IN  IF column_data = <<>> THEN Returned(<<>>)  \* the lambda is never called
        ELSE IF find_list = <<>> THEN [exc |-> "IndexError"]  \* find[0]
        ELSE Returned([r \in 1..Len(column_data) |->
                 IF str_strip(column_data[r]) = find_list[1]
                 THEN <<>>
                 ELSE column_data[r]])

\* re.sub(f'[{re.escape(string.punctuation)}]', '', value)
remove_punctuation(value) ==
    SelectSeq(value, LAMBDA c : c \notin string_punctuation)

sanitize_input(input_value) ==
    IF isinstance_list(input_value)
    THEN [kind |-> "list",
          v |-> [k \in 1..Len(input_value.v) |-> remove_punctuation(input_value.v[k])]]
    ELSE [kind |-> "str", s |-> remove_punctuation(input_value.s)]

\* f.replace('*', '.*')
str_replace_star(f) ==
    Flatten([k \in 1..Len(f) |-> IF f[k] = "*" THEN <<".", "*">> ELSE <<f[k]>>])

RECURSIVE any_search(_, _)

AnyNext(fs, x, compiled) ==
    IF compiled.exc # "" THEN [exc |-> compiled.exc]
    ELSE IF re_search(compiled, x) THEN Returned(TRUE)
    ELSE any_search(Tail(fs), x)

\* any(re.search(f.replace('*', '.*'), x, flags=re.IGNORECASE) for f in find)
any_search(fs, x) ==
    IF fs = <<>> THEN Returned(FALSE)
    ELSE AnyNext(fs, x, re_compile(str_replace_star(Head(fs)), TRUE))

\* a cell's result put before the results of the cells after it
ConsCell(first, rest) ==
    IF first.exc # "" THEN [exc |-> first.exc]
    ELSE IF rest.exc # "" THEN [exc |-> rest.exc]
    ELSE Returned(<<first.val>> \o rest.val)

\* lambda x: replace if any(...) else x
WildcardCell(x, replace, hit) ==
    IF hit.exc # "" THEN [exc |-> hit.exc]
    ELSE Returned(IF hit.val THEN replace ELSE x)

RECURSIVE wildcard_cells(_, _, _)
\* column_data.apply(lambda x: replace if any(...) else x), cell after cell
wildcard_cells(cells, fs, replace) ==
    IF cells = <<>> THEN Returned(<<>>)
    ELSE ConsCell(WildcardCell(Head(cells), replace, any_search(fs, Head(cells))),
                  wildcard_cells(Tail(cells), fs, replace))

apply_wildcard_pattern(column_data, find, replace) ==
    wildcard_cells(column_data, iterate(sanitize_input(find)),
                   sanitize_input([kind |-> "str", s |-> replace]).s)

RECURSIVE regex_cells(_, _, _)
\* column_data.apply(lambda x: re.sub(compiled_pattern, lambda match: ..., str(x)))
regex_cells(cells, compiled, replace) ==
    IF cells = <<>> THEN Returned(<<>>)
    ELSE ConsCell(re_sub(compiled, replace, Head(cells)),
                  regex_cells(Tail(cells), compiled, replace))

\* a mutation of TryPattern: re.error is not caught
TryPatternUncaught(column_data, replace, compiled_pattern) ==
    IF compiled_pattern.exc = "re.error" THEN [exc |-> "re.error"]
    ELSE regex_cells(column_data, compiled_pattern, replace)

\* the try block of apply_regex_pattern and its "except re.error: continue"
TryPattern(column_data, replace, compiled_pattern) ==
    IF compiled_pattern.exc = "re.error" THEN Returned(column_data)
    ELSE regex_cells(column_data, compiled_pattern, replace)

\* one iteration of the loop of apply_regex_pattern
regex_iteration(column_data, find_pattern, replace) ==
    TryPattern(column_data, replace, re_compile(find_pattern, TRUE))

RECURSIVE regex_loop(_, _, _)

LoopNext(fs, replace, it) ==
    IF it.exc # "" THEN it ELSE regex_loop(it.val, Tail(fs), replace)

\* for find_pattern in find: ...
regex_loop(column_data, fs, replace) ==
    IF fs = <<>> THEN Returned(column_data)
    ELSE LoopNext(fs, replace, regex_iteration(column_data, Head(fs), replace))

apply_regex_pattern(column_data, find, replace) ==
    regex_loop(column_data, iterate(find), replace)

\* pattern_mapping: pattern type -> replace function
pattern_mapping == {"substitution", "wildcard", "regex"}

replace_function(pattern_type, column_data, find, replace) ==
    CASE pattern_type = "substitution" -> apply_substitution_pattern(column_data, find, replace)
      [] pattern_type = "wildcard" -> apply_wildcard_pattern(column_data, find, replace)
      [] pattern_type = "regex" -> apply_regex_pattern(column_data, find, replace)

(***************************************************************************)
(* validate_patterns.  An error message is modelled by what it carries:    *)
(* the 1-based rule index, which check failed, and for an invalid regex    *)
(* the column name and the pattern.  The state of the loops is the         *)
(* accumulator [exc, errors, compiled]: validation_errors and the keys of  *)
(* compiled_patterns.                                                      *)
(***************************************************************************)
HasKey(dict, key) == key \in DOMAIN dict

RuleFieldsError(i) ==
    [rule |-> i, check |-> "rule_fields", column |-> "", pattern |-> <<>>]

SubFieldsError(i) ==
    [rule |-> i, check |-> "sub_fields", column |-> "", pattern |-> <<>>]

RegexError(i, column, find_pattern) ==
    [rule |-> i, check |-> "regex", column |-> column, pattern |-> find_pattern]

\* if find_pattern not in compiled_patterns: try: re.compile ... except re.error: ...
CheckRegex(i, pattern, find_pattern, acc) ==
    IF find_pattern \in acc.compiled THEN acc
    ELSE IF re_compile(find_pattern, FALSE).exc = ""
    THEN [acc EXCEPT !.compiled = @ \cup {find_pattern}]
    ELSE IF ~HasKey(pattern, "column")
    THEN [acc EXCEPT !.exc = "KeyError"]  \* pattern['column'] in the message
    ELSE [acc EXCEPT !.errors = Append(@, RegexError(i, pattern.column, find_pattern))]

RECURSIVE validate_find_patterns(_, _, _, _)
\* for find_pattern in find_patterns: ...
validate_find_patterns(i, pattern, find_patterns, acc) ==
    IF find_patterns = <<>> \/ acc.exc # "" THEN acc
    ELSE validate_find_patterns(i, pattern, Tail(find_patterns),
                                CheckRegex(i, pattern, Head(find_patterns), acc))

\* the checks of one column pattern
CheckColumnPattern(i, pattern, column_pattern, acc) ==
    LET checked ==
            IF ~HasKey(column_pattern, "find") \/ ~HasKey(column_pattern, "replace")
               \/ ~HasKey(column_pattern, "type")
            THEN [acc EXCEPT !.errors = Append(@, SubFieldsError(i))]
            ELSE acc
        find_patterns ==
            IF HasKey(column_pattern, "find") THEN iterate(column_pattern.find) ELSE <<>>
    IN  IF HasKey(column_pattern, "type") /\ column_pattern.type = "regex"
        THEN validate_find_patterns(i, pattern, find_patterns, checked)
        ELSE checked

RECURSIVE validate_column_patterns(_, _, _, _)
\* for column_pattern in pattern.get('patterns', []): ...
validate_column_patterns(i, pattern, column_patterns, acc) ==
    IF column_patterns = <<>> \/ acc.exc # "" THEN acc
    ELSE validate_column_patterns(i, pattern, Tail(column_patterns),
                                  CheckColumnPattern(i, pattern, Head(column_patterns), acc))

\* the checks of one rule
CheckRule(i, pattern, acc) ==
    validate_column_patterns(i, pattern,
        IF HasKey(pattern, "patterns") THEN pattern.patterns ELSE <<>>,
        IF ~HasKey(pattern, "column") \/ ~HasKey(pattern, "patterns")
        THEN [acc EXCEPT !.errors = Append(@, RuleFieldsError(i))]
        ELSE acc)

RECURSIVE validate_rules(_, _, _)
\* for i, pattern in enumerate(patterns): ...
validate_rules(patterns, i, acc) ==
    IF i > Len(patterns) \/ acc.exc # "" THEN acc
    ELSE validate_rules(patterns, i + 1, CheckRule(i, patterns[i], acc))

ValidationResult(acc) ==
    IF acc.exc # "" THEN [exc |-> acc.exc] ELSE Returned(acc.errors)

validate_patterns(patterns) ==
    ValidationResult(validate_rules(patterns, 1, [exc |-> "", errors |-> <<>>, compiled |-> {}]))

(***************************************************************************)
(* Bounds of the inputs.                                                   *)
(***************************************************************************)
MaxRows == 2    \* rows of a table
MaxRules == 2   \* column rules of a rule document
MaxFind == 2    \* entries of a 'find' list handed to a matcher

\* sequences over S of length lo..hi
SeqsOf(S, lo, hi) == UNION {[1..n -> S] : n \in lo..hi}

Str(s) == [kind |-> "str", s |-> s]
List(l) == [kind |-> "list", v |-> l]

\* None, and a value that may be None elsewhere
None == [py_none |-> TRUE]
Some(v) == [py_none |-> FALSE, val |-> v]

(***************************************************************************)
(* The files.  A file is what the library call reading it does: the        *)
(* exception pd.read_csv / open / yaml.safe_load raises, or the value it   *)
(* returns.  Cells are already strings (fillna('') and astype(str)).       *)
(***************************************************************************)
CellPool == {<<"a", "b">>, <<" ", "a">>, <<"B">>}

\* a frame with columns x and y; y holds the same cell in every row
Frames ==
    {[x |-> col, y |-> [r \in 1..Len(col) |-> <<"a", "b">>]] :
        col \in SeqsOf(CellPool, 0, MaxRows)}

CsvFiles ==
    {[raises |-> e, frame |-> None] :
        e \in {"FileNotFoundError", "ParserError", "PermissionError", "EmptyDataError"}}
    \cup {[raises |-> "", frame |-> f] : f \in Frames}

\* sub-patterns
StripA == [find |-> List(<< <<"a">> >>), replace |-> <<>>, type |-> "substitution"]
GroupAB == [find |-> List(<< <<"(", "a", ")", "b">> >>),
            replace |-> <<"{", "t", "e", "x", "t", "}">>, type |-> "regex"]
NoGroupB == [find |-> List(<< <<"b">> >>),
             replace |-> <<"{", "t", "e", "x", "t", "}">>, type |-> "regex"]
WildA == [find |-> List(<< <<"a", "*">> >>), replace |-> <<"c", "!">>, type |-> "wildcard"]
Fuzzy == [find |-> List(<< <<"a">> >>), replace |-> <<"z">>, type |-> "fuzzy"]
EmptyFind == [find |-> List(<<>>), replace |-> <<>>, type |-> "substitution"]
BadRegex == [find |-> List(<< <<"(", "a">> >>), replace |-> <<>>, type |-> "regex"]
NoReplace == [find |-> List(<< <<"a">> >>), type |-> "substitution"]
ScalarGroupAB == [find |-> Str(<<"(", "a", ")", "b">>),
                  replace |-> <<"{", "t", "e", "x", "t", "}">>, type |-> "regex"]

\* column rules: well-formed ones, then malformed ones
RulePool ==
    {[column |-> "x", patterns |-> <<GroupAB, StripA>>],
     [column |-> "x", patterns |-> <<WildA>>],
     [column |-> "x", patterns |-> <<Fuzzy, StripA>>],
     [column |-> "x", patterns |-> <<NoGroupB>>],
     [column |-> "x", patterns |-> <<EmptyFind>>],
     [column |-> "y", patterns |-> <<GroupAB>>],
     [column |-> "z", patterns |-> <<NoGroupB>>],
     [column |-> "x"],
     [patterns |-> <<BadRegex>>],
     [column |-> "x", patterns |-> <<NoReplace, BadRegex>>],
     [column |-> "x", patterns |-> <<ScalarGroupAB>>]}

PatternFiles ==
    {[raises |-> e, doc |-> None] :
        e \in {"FileNotFoundError", "PermissionError", "YAMLError"}}
    \cup {[raises |-> "", doc |-> None]}  \* an empty document loads as None
    \cup {[raises |-> "", doc |-> Some(d)] : d \in SeqsOf(RulePool, 0, MaxRules)}

(***************************************************************************)
(* The loaders.                                                            *)
(***************************************************************************)
\* df.empty: no rows
df_empty(frame) == \A c \in DOMAIN frame : frame[c] = <<>>

read_csv(file) ==
    IF file.raises \in {"FileNotFoundError", "ParserError"} THEN Returned(None)
    ELSE IF file.raises # "" THEN [exc |-> file.raises]
    ELSE IF df_empty(file.frame) THEN Returned(None)
    ELSE Returned(file.frame)

\* every exception is caught and None returned
read_yaml_file(file) ==
    IF file.raises # "" THEN None ELSE file.doc

\* a mutation of Validated: the patterns are returned whatever the errors
ValidatedAnyway(loaded, validation_errors) ==
    IF validation_errors.exc # "" THEN <<>> ELSE loaded

\* what read_patterns_file makes of the validation: [] when it raised
\* (except Exception) or found errors, the patterns otherwise
Validated(loaded, validation_errors) ==
    IF validation_errors.exc # "" THEN <<>>
    ELSE IF validation_errors.val # <<>> THEN <<>>
    ELSE loaded

read_patterns_file(file) ==
    IF read_yaml_file(file) = None THEN <<>>
    ELSE Validated(read_yaml_file(file).val, validate_patterns(read_yaml_file(file).val))

(***************************************************************************)
(* State.  main(csv_file, pattern_file), with replace_with_patterns one    *)
(* step per loop position (rule rule_idx, sub-pattern pat_idx; pat_idx is  *)
(* 0 at the head of the outer loop body); and the matchers called on their *)
(* own.                                                                    *)
(***************************************************************************)
VARIABLES
    csv_file,       \* the table source
    pattern_file,   \* the rule document source
    pc,             \* where main is
    df,             \* main's df
    patterns,       \* main's patterns
    rule_idx, pat_idx,  \* loop positions of replace_with_patterns
    ret,            \* what main returned
    exc,            \* the exception that left main
    reported,       \* what validate_patterns gave read_patterns_file
    called,         \* the functions main has called
    m_fn, m_column, m_find, m_replace,  \* a matcher call and its arguments
    m_pc,           \* where the matcher is
    m_k,            \* loop position of apply_regex_pattern
    m_current,      \* column_data inside the matcher
    m_exc           \* the exception that left the matcher

main_vars == <<csv_file, pattern_file, pc, df, patterns, rule_idx, pat_idx, ret, exc, reported, called>>
matcher_vars == <<m_fn, m_column, m_find, m_replace, m_pc, m_k, m_current, m_exc>>
vars == <<main_vars, matcher_vars>>

NonePair == <<None, None>>
NotRun == [exc |-> "not run"]

MatcherIdle ==
    /\ m_fn = "" /\ m_column = <<>> /\ m_find = List(<<>>) /\ m_replace = <<>>
    /\ m_pc = "idle" /\ m_k = 0 /\ m_current = <<>> /\ m_exc = ""

MainIdle ==
    /\ csv_file = None /\ pattern_file = None /\ pc = "idle" /\ df = None
    /\ patterns = <<>> /\ rule_idx = 0 /\ pat_idx = 0 /\ ret = None /\ exc = ""
    /\ reported = NotRun /\ called = {}

Init ==
    /\ csv_file \in CsvFiles
    /\ pattern_file \in PatternFiles
    /\ pc = "read_csv"
    /\ df = None /\ patterns = <<>> /\ rule_idx = 0 /\ pat_idx = 0
    /\ ret = None /\ exc = "" /\ reported = NotRun /\ called = {}
    /\ MatcherIdle

\* df = read_csv(csv_file); if df is None: return None, None
MainReadCsv ==
    /\ pc = "read_csv"
    /\ LET r == read_csv(csv_file)
       IN  /\ called' = called \cup {"read_csv"}
           /\ IF r.exc # "" THEN pc' = "raised" /\ exc' = r.exc /\ UNCHANGED <<df, ret>>
              ELSE IF r.val = None
              THEN pc' = "done" /\ ret' = NonePair /\ UNCHANGED <<df, exc>>
              ELSE pc' = "read_patterns_file" /\ df' = r.val /\ UNCHANGED <<ret, exc>>
    /\ UNCHANGED <<csv_file, pattern_file, patterns, rule_idx, pat_idx, reported, matcher_vars>>

\* patterns = read_patterns_file(pattern_file); if not patterns: return None, None
MainReadPatterns ==
    /\ pc = "read_patterns_file"
    /\ patterns' = read_patterns_file(pattern_file)
    /\ reported' = IF read_yaml_file(pattern_file) = None THEN NotRun
                   ELSE validate_patterns(read_yaml_file(pattern_file).val)
    /\ IF patterns' = <<>>
       THEN /\ pc' = "done" /\ ret' = NonePair
            /\ called' = called \cup {"read_patterns_file"}
            /\ UNCHANGED <<rule_idx, pat_idx>>
       ELSE /\ pc' = "replace_with_patterns" /\ rule_idx' = 1 /\ pat_idx' = 0
            /\ called' = called \cup {"read_patterns_file", "replace_with_patterns"}
            /\ UNCHANGED ret
    /\ UNCHANGED <<csv_file, pattern_file, df, exc, matcher_vars>>

\* a mutation of dataframe_column: the column as it was loaded
loaded_column(column) == csv_file.frame[column]

\* dataframe[column], as the replace function is handed it
dataframe_column(column) == df[column]

\* a mutation of EngineRule: a rule naming a missing column raises
EngineRuleStrict ==
    /\ pc = "replace_with_patterns" /\ rule_idx <= Len(patterns) /\ pat_idx = 0
    /\ LET pattern == patterns[rule_idx]
       IN  IF ~HasKey(pattern, "column") \/ ~HasKey(pattern, "patterns")
              \/ pattern.column \notin DOMAIN df
           THEN pc' = "raised" /\ exc' = "KeyError" /\ UNCHANGED <<rule_idx, pat_idx>>
           ELSE pat_idx' = 1 /\ UNCHANGED <<pc, exc, rule_idx>>
    /\ UNCHANGED <<csv_file, pattern_file, df, patterns, ret, reported, called, matcher_vars>>

\* for pattern in patterns: column = pattern['column'];
\* column_patterns = pattern['patterns']; if column in dataframe.columns:
EngineRule ==
    /\ pc = "replace_with_patterns" /\ rule_idx <= Len(patterns) /\ pat_idx = 0
    /\ LET pattern == patterns[rule_idx]
       IN  IF ~HasKey(pattern, "column") \/ ~HasKey(pattern, "patterns")
           THEN pc' = "raised" /\ exc' = "KeyError" /\ UNCHANGED <<rule_idx, pat_idx>>
           ELSE IF pattern.column \in DOMAIN df
           THEN pat_idx' = 1 /\ UNCHANGED <<pc, exc, rule_idx>>
           ELSE rule_idx' = rule_idx + 1 /\ UNCHANGED <<pc, exc, pat_idx>>
    /\ UNCHANGED <<csv_file, pattern_file, df, patterns, ret, reported, called, matcher_vars>>

\* dataframe[column] = replace_function(dataframe[column], find, replace)
WriteBack(column, r) ==
    IF r.exc # ""
    THEN pc' = "raised" /\ exc' = r.exc /\ UNCHANGED <<df, pat_idx>>
    ELSE df' = [df EXCEPT ![column] = r.val] /\ pat_idx' = pat_idx + 1 /\ UNCHANGED <<pc, exc>>

\* the body of "for replace_pattern in column_patterns"
EnginePattern ==
    /\ pc = "replace_with_patterns" /\ rule_idx <= Len(patterns)
    /\ pat_idx >= 1 /\ pat_idx <= Len(patterns[rule_idx].patterns)
    /\ LET column == patterns[rule_idx].column
           replace_pattern == patterns[rule_idx].patterns[pat_idx]
       IN  IF ~HasKey(replace_pattern, "find") \/ ~HasKey(replace_pattern, "replace")
           THEN pc' = "raised" /\ exc' = "KeyError" /\ UNCHANGED <<df, pat_idx>>
           ELSE IF ~HasKey(replace_pattern, "type")
                   \/ replace_pattern.type \notin pattern_mapping
           THEN pat_idx' = pat_idx + 1 /\ UNCHANGED <<pc, exc, df>>
           ELSE WriteBack(column,
                    replace_function(replace_pattern.type, dataframe_column(column),
                                     replace_pattern.find, replace_pattern.replace))
    /\ UNCHANGED <<csv_file, pattern_file, patterns, rule_idx, ret, reported, called, matcher_vars>>

\* the inner loop is exhausted: on to the next rule
EngineRuleDone ==
    /\ pc = "replace_with_patterns" /\ rule_idx <= Len(patterns)
    /\ pat_idx >= 1 /\ pat_idx > Len(patterns[rule_idx].patterns)
    /\ rule_idx' = rule_idx + 1 /\ pat_idx' = 0
    /\ UNCHANGED <<csv_file, pattern_file, pc, df, patterns, ret, exc, reported, called,
                   matcher_vars>>

\* return dataframe; main returns df, patterns
EngineReturn ==
    /\ pc = "replace_with_patterns" /\ rule_idx > Len(patterns)
    /\ pc' = "done" /\ ret' = <<df, Some(patterns)>>
    /\ UNCHANGED <<csv_file, pattern_file, df, patterns, rule_idx, pat_idx, exc, reported, called,
                   matcher_vars>>

Next ==
    \/ MainReadCsv
    \/ MainReadPatterns
    \/ EngineRule
    \/ EnginePattern
    \/ EngineRuleDone
    \/ EngineReturn

Spec == Init /\ [][Next]_vars

(***************************************************************************)
(* The matchers called on their own: any column, any 'find' (a list or a   *)
(* scalar) and any template.  apply_regex_pattern is one step per          *)
(* iteration of its loop.                                                  *)
(***************************************************************************)
PatternPool ==
    {<<"a">>, <<"(", "a", ")", "b">>, <<"(", "a", ")", "?", "b">>, <<"(", "a">>, <<"a", "*">>}

TemplatePool == {<<"{", "t", "e", "x", "t", "}">>, <<"c", "!">>, <<"{", "y", "}">>}

FindValues ==
    {List(l) : l \in SeqsOf(PatternPool, 0, MaxFind)} \cup {Str(p) : p \in PatternPool}

MatcherInit ==
    /\ MainIdle
    /\ m_fn \in pattern_mapping
    /\ m_column \in SeqsOf(CellPool, 0, MaxRows)
    /\ m_find \in FindValues
    /\ m_replace \in TemplatePool
    /\ m_pc = "call" /\ m_k = 0 /\ m_current = m_column /\ m_exc = ""

\* the matcher returns r.val or raises r.exc
MatcherEnds(r) ==
    IF r.exc # ""
    THEN m_pc' = "raised" /\ m_exc' = r.exc /\ UNCHANGED m_current
    ELSE m_pc' = "returned" /\ m_current' = r.val /\ UNCHANGED m_exc

CallSubstitution ==
    /\ m_pc = "call" /\ m_fn = "substitution"
    /\ MatcherEnds(apply_substitution_pattern(m_column, m_find, m_replace))
    /\ UNCHANGED <<main_vars, m_fn, m_column, m_find, m_replace, m_k>>

CallWildcard ==
    /\ m_pc = "call" /\ m_fn = "wildcard"
    /\ MatcherEnds(apply_wildcard_pattern(m_column, m_find, m_replace))
    /\ UNCHANGED <<main_vars, m_fn, m_column, m_find, m_replace, m_k>>

CallRegex ==
    /\ m_pc = "call" /\ m_fn = "regex"
    /\ m_pc' = "regex_loop" /\ m_k' = 1
    /\ UNCHANGED <<main_vars, m_fn, m_column, m_find, m_replace, m_current, m_exc>>

\* the loop body ends: column_data is rebound, or the exception leaves
IterationEnds(it) ==
    IF it.exc # ""
    THEN m_pc' = "raised" /\ m_exc' = it.exc /\ UNCHANGED <<m_current, m_k>>
    ELSE m_current' = it.val /\ m_k' = m_k + 1 /\ UNCHANGED <<m_pc, m_exc>>

RegexIteration ==
    /\ m_pc = "regex_loop" /\ m_k <= Len(iterate(m_find))
    /\ IterationEnds(regex_iteration(m_current, iterate(m_find)[m_k], m_replace))
    /\ UNCHANGED <<main_vars, m_fn, m_column, m_find, m_replace>>

RegexReturn ==
    /\ m_pc = "regex_loop" /\ m_k > Len(iterate(m_find))
    /\ m_pc' = "returned"
    /\ UNCHANGED <<main_vars, m_fn, m_column, m_find, m_replace, m_k, m_current, m_exc>>

MatcherNext ==
    \/ CallSubstitution
    \/ CallWildcard
    \/ CallRegex
    \/ RegexIteration
    \/ RegexReturn

MatcherSpec == MatcherInit /\ [][MatcherNext]_vars

(***************************************************************************)
(* Properties of main: loading, validation and the engine.                 *)
(***************************************************************************)
\* yaml.safe_load returned a rule list
DocumentLoaded == pattern_file.raises = "" /\ pattern_file.doc # None

\* validate_patterns does not return the empty error list for the document
ValidationFails ==
    DocumentLoaded /\ validate_patterns(pattern_file.doc.val) # Returned(<<>>)

\* C1: fail-closed validation.  Once read_patterns_file has run on a document
\* in which validate_patterns finds an error, the rule set is empty,
\* replace_with_patterns has not been called, the table is as loaded and main
\* has returned (None, None).
C1_FailClosed ==
    ("read_patterns_file" \in called /\ ValidationFails) =>
        /\ patterns = <<>>
        /\ "replace_with_patterns" \notin called
        /\ df = csv_file.frame
        /\ pc = "done" /\ exc = "" /\ ret = NonePair

\* a two-rule document with one rule that is valid on its own and would change
\* the loaded table, rejected as a whole
C1_Witness ==
    /\ pc = "done" /\ "read_patterns_file" \in called /\ ValidationFails
    /\ ret = NonePair
    /\ Len(pattern_file.doc.val) = 2
    /\ \E a \in 1..2 :
          /\ validate_patterns(<<pattern_file.doc.val[a]>>) = Returned(<<>>)
          /\ pattern_file.doc.val[a].column = "x"
          /\ pattern_file.doc.val[a].patterns[1].type \in pattern_mapping
          /\ replace_function(pattern_file.doc.val[a].patterns[1].type, df.x,
                              pattern_file.doc.val[a].patterns[1].find,
                              pattern_file.doc.val[a].patterns[1].replace)
                \notin {Returned(df.x), [exc |-> "IndexError"], [exc |-> "KeyError"]}

\* the table source fails to load
TableLoadFails ==
    IF csv_file.raises # "" THEN TRUE ELSE df_empty(csv_file.frame)

\* the rule document fails to load
DocumentLoadFails == pattern_file.raises # ""

\* C2: every load-phase failure is terminal and clean.  When the table source
\* fails to load (not found, unreadable, malformed, empty), or the table loads
\* and the rule document does not (missing, unreadable, malformed), main ends
\* by returning (None, None), raises nothing and never calls
\* replace_with_patterns.
C2_LoadFailureClean ==
    /\ (pc \in {"done", "raised"} /\ (TableLoadFails \/ DocumentLoadFails)) =>
          /\ pc = "done" /\ exc = "" /\ ret = NonePair
          /\ "replace_with_patterns" \notin called
    /\ (TableLoadFails \/ DocumentLoadFails) => pc # "replace_with_patterns"

\* the sub-patterns validate_patterns iterates: pattern.get('patterns', [])
SubPatternsOf(rule) == IF HasKey(rule, "patterns") THEN rule.patterns ELSE <<>>

MissingSubFields(sub) ==
    ~HasKey(sub, "find") \/ ~HasKey(sub, "replace") \/ ~HasKey(sub, "type")

\* the positions <<q, k>> of the invalid regex strings of a rule: entry k of
\* the 'find' list of its q-th sub-pattern, of type 'regex'
InvalidRegexes(rule) ==
    {pos \in UNION {{<<q, k>> : k \in 1..(IF HasKey(SubPatternsOf(rule)[q], "find")
                                         THEN Len(SubPatternsOf(rule)[q].find.v) ELSE 0)} :
                    q \in {n \in 1..Len(SubPatternsOf(rule)) :
                              /\ HasKey(SubPatternsOf(rule)[n], "type")
                              /\ SubPatternsOf(rule)[n].type = "regex"}} :
        re_compile(SubPatternsOf(rule)[pos[1]].find.v[pos[2]], FALSE).exc # ""}

\* how many errors of one kind the list carries for rule a
ErrorsOf(errors, a, check) ==
    Cardinality({n \in 1..Len(errors) : errors[n].rule = a /\ errors[n].check = check})

\* every 'find' of the document is a list
FindsAreLists(doc) ==
    \A a \in 1..Len(doc) : \A q \in 1..Len(SubPatternsOf(doc[a])) :
        HasKey(SubPatternsOf(doc[a])[q], "find") => SubPatternsOf(doc[a])[q].find.kind = "list"

\* C3: validate_patterns collects all errors.  For every loaded rule list
\* (with 'find' lists) it returns a list that carries, for every rule index a,
\* one error if rule a lacks 'column' or 'patterns', one per sub-pattern of
\* rule a lacking 'find', 'replace' or 'type', and one per invalid regex
\* string in the 'find' of a 'regex' sub-pattern of rule a, and nothing else.
C3_CollectsAllErrors ==
    ("read_patterns_file" \in called /\ DocumentLoaded /\ FindsAreLists(pattern_file.doc.val)) =>
        /\ reported.exc = ""
        /\ \A n \in 1..Len(reported.val) : reported.val[n].rule \in 1..Len(pattern_file.doc.val)
        /\ \A a \in 1..Len(pattern_file.doc.val) :
              /\ ErrorsOf(reported.val, a, "rule_fields")
                    = IF HasKey(pattern_file.doc.val[a], "column")
                         /\ HasKey(pattern_file.doc.val[a], "patterns") THEN 0 ELSE 1
              /\ ErrorsOf(reported.val, a, "sub_fields")
                    = Cardinality({q \in 1..Len(SubPatternsOf(pattern_file.doc.val[a])) :
                                      MissingSubFields(SubPatternsOf(pattern_file.doc.val[a])[q])})
              /\ ErrorsOf(reported.val, a, "regex")
                    = Cardinality(InvalidRegexes(pattern_file.doc.val[a]))

\* C4: apply-phase failures never abort the run.  Once main has called
\* replace_with_patterns (the rule set passed validation with no error), no
\* exception leaves it, and it returns the table with every rule processed.
C4_ApplyNeverAborts ==
    "replace_with_patterns" \in called =>
        /\ pc # "raised"
        /\ pc = "done" => (ret = <<df, Some(patterns)>> /\ rule_idx = Len(patterns) + 1)

\* the type has a replace function
KnownType(sub) == sub.type \in pattern_mapping

\* the sub-patterns the engine applies to column c out of the first b of a rule
AppliedOfRule(c, rule, b) ==
    IF rule.column = c THEN SelectSeq(SubSeq(rule.patterns, 1, b), KnownType) ELSE <<>>

\* the same over rules 1..a, rule a counted up to its b-th sub-pattern
RECURSIVE AppliedTo(_, _, _, _)
AppliedTo(c, rules, a, b) ==
    IF a = 0 THEN <<>>
    ELSE AppliedTo(c, rules, a - 1, IF a = 1 THEN 0 ELSE Len(rules[a - 1].patterns))
            \o AppliedOfRule(c, rules[a], b)

\* left-to-right composition: each sub-pattern reads the previous one's output
RECURSIVE Compose(_, _)
Compose(column_data, subs) ==
    IF subs = <<>> THEN Returned(column_data)
    ELSE IF replace_function(Head(subs).type, column_data, Head(subs).find,
                             Head(subs).replace).exc # ""
    THEN [exc |-> replace_function(Head(subs).type, column_data, Head(subs).find,
                                   Head(subs).replace).exc]
    ELSE Compose(replace_function(Head(subs).type, column_data, Head(subs).find,
                                  Head(subs).replace).val, Tail(subs))

\* the last loop position the engine has completed: <<rule, sub-pattern>>
EngineDone ==
    IF rule_idx > Len(patterns)
    THEN <<Len(patterns), Len(patterns[Len(patterns)].patterns)>>
    ELSE <<rule_idx, IF pat_idx = 0 THEN 0 ELSE pat_idx - 1>>

\* C5: sequential composition in the engine.  At every point of
\* replace_with_patterns each column holds the left-to-right composition, over
\* the column as loaded, of the applicable sub-patterns processed so far, in
\* document order; at the return this is the composition of all of them.
C5_SequentialComposition ==
    "replace_with_patterns" \in called =>
        \A c \in DOMAIN df :
            Compose(csv_file.frame[c], AppliedTo(c, patterns, EngineDone[1], EngineDone[2]))
                = Returned(df[c])

\* the engine has returned a column x made by two or more sub-patterns that no
\* one of them gives when applied to the loaded column
C5_Witness ==
    /\ pc = "done" /\ "replace_with_patterns" \in called
    /\ Len(AppliedTo("x", patterns, EngineDone[1], EngineDone[2])) >= 2
    /\ \A n \in 1..Len(AppliedTo("x", patterns, EngineDone[1], EngineDone[2])) :
          replace_function(AppliedTo("x", patterns, EngineDone[1], EngineDone[2])[n].type,
                           csv_file.frame.x,
                           AppliedTo("x", patterns, EngineDone[1], EngineDone[2])[n].find,
                           AppliedTo("x", patterns, EngineDone[1], EngineDone[2])[n].replace)
             # Returned(df.x)

\* the engine is at a rule whose column the table does not have
AtUnknownColumn ==
    /\ pc = "replace_with_patterns" /\ rule_idx <= Len(patterns) /\ pat_idx = 0
    /\ patterns[rule_idx].column \notin DOMAIN df

\* the engine is at a sub-pattern whose type has no replace function
AtUnknownType ==
    /\ pc = "replace_with_patterns" /\ rule_idx <= Len(patterns)
    /\ pat_idx >= 1 /\ pat_idx <= Len(patterns[rule_idx].patterns)
    /\ patterns[rule_idx].patterns[pat_idx].type \notin pattern_mapping

\* C6: permissive skipping.  The step the engine takes at a rule naming a
\* column the table lacks, or at a sub-pattern of unknown type, raises nothing
\* and leaves the table (its columns and every cell) as it was, and the engine
\* goes on to the next rule, or to the next sub-pattern of the rule.
C6_PermissiveSkip ==
    [][/\ AtUnknownColumn =>
            /\ df' = df /\ pc' = pc /\ exc' = exc
            /\ rule_idx' = rule_idx + 1 /\ pat_idx' = 0
       /\ AtUnknownType =>
            /\ df' = df /\ pc' = pc /\ exc' = exc
            /\ rule_idx' = rule_idx /\ pat_idx' = pat_idx + 1]_vars

\* the engine returned after skipping a rule for an unknown column and a
\* sub-pattern of unknown type, and a sub-pattern after both changed the table
C6_Witness ==
    /\ pc = "done" /\ "replace_with_patterns" \in called
    /\ Len(patterns) = 2
    /\ patterns[1].column \notin DOMAIN df
    /\ patterns[2].patterns[1].type \notin pattern_mapping
    /\ df # csv_file.frame
    /\ DOMAIN df = DOMAIN csv_file.frame

(***************************************************************************)
(* Properties of the matchers.                                             *)
(***************************************************************************)
\* how the matcher call ended
MatcherOutcome ==
    IF m_pc = "raised" THEN [exc |-> m_exc] ELSE Returned(m_current)

MatcherEnded == m_pc \in {"returned", "raised"}

\* re.compile(p, flags=re.IGNORECASE) succeeds
Compiles(p) == re_compile(p, TRUE).exc = ""

\* the passes of the compilable patterns ps over a column, in order
RECURSIVE ApplyCompilable(_, _, _)
ApplyCompilable(column_data, ps, replace) ==
    IF ps = <<>> THEN Returned(column_data)
    ELSE IF regex_cells(column_data, re_compile(Head(ps), TRUE), replace).exc # ""
    THEN [exc |-> regex_cells(column_data, re_compile(Head(ps), TRUE), replace).exc]
    ELSE ApplyCompilable(regex_cells(column_data, re_compile(Head(ps), TRUE), replace).val,
                         Tail(ps), replace)

\* the entries of 'find' whose iteration has ended
EntriesDone ==
    SubSeq(iterate(m_find), 1,
           IF m_pc = "returned" THEN Len(iterate(m_find))
           ELSE IF m_pc = "raised" THEN m_k ELSE m_k - 1)

\* C7: regex apply-time compile isolation.  At every point of the loop of
\* apply_regex_pattern, column_data (or the exception that left the loop) is
\* what the passes of only the compilable entries so far give, applied in
\* 'find' order, each to the column the previous one made: an entry that fails
\* to compile leaves the column as it was and the loop goes on.
C7_CompileIsolation ==
    (m_fn = "regex" /\ m_pc \in {"regex_loop", "returned", "raised"}) =>
        /\ ApplyCompilable(m_column, SelectSeq(EntriesDone, Compiles), m_replace)
              = MatcherOutcome
        /\ m_pc = "raised" => m_exc # "re.error"

\* the matcher returned a changed column from a 'find' list whose first entry
\* does not compile and whose last entry does
C7_Witness ==
    /\ m_fn = "regex" /\ m_pc = "returned" /\ m_find.kind = "list"
    /\ Len(m_find.v) >= 2
    /\ ~Compiles(m_find.v[1])
    /\ Compiles(m_find.v[Len(m_find.v)])
    /\ m_current # m_column

\* the template has no placeholder but {text}
TemplateFills(replace) == str_format(replace, <<>>).exc = ""

\* the pattern read as having a first group, one that takes no part in a
\* match when the pattern has none
WithFirstGroup(compiled) ==
    [compiled EXCEPT !.groups = IF @ < 1 THEN 1 ELSE @]

\* C8: regex template substitution.  For a 'find' list of one pattern that
\* compiles and a template whose only placeholder is {text}, the matcher
\* returns the column in which every match of every cell is replaced by the
\* template filled with the first capture group where the pattern has one that
\* took part in the match, and with the empty string otherwise (no group, or
\* a group that took no part); cells without a match are unchanged.
C8_TemplateSubstitution ==
    (/\ m_fn = "regex" /\ MatcherEnded
     /\ m_find.kind = "list" /\ Len(m_find.v) = 1 /\ Compiles(m_find.v[1])
     /\ TemplateFills(m_replace)) =>
        /\ m_pc = "returned"
        /\ m_current = [r \in 1..Len(m_column) |->
                           re_sub(WithFirstGroup(re_compile(m_find.v[1], TRUE)),
                                  m_replace, m_column[r]).val]

\* C9: scalar 'find' normalization.  A matcher called with a 'find' that is a
\* single string s ends as it does when called with the one-element list [s].
C9_ScalarAsOneElementList ==
    (MatcherEnded /\ m_find.kind = "str") =>
        MatcherOutcome = replace_function(m_fn, m_column, List(<<m_find.s>>), m_replace)

\* find[0], 'find' normalized to a list
FirstFind(find) == IF find.kind = "list" THEN find.v[1] ELSE find.s

HasFirstFind(find) == find.kind = "list" => find.v # <<>>

\* C10: the substitution matcher.  With a 'find' that has a first entry,
\* apply_substitution_pattern returns a column of the length of its input in
\* which a cell is the empty string when the input cell, stripped of leading
\* and trailing whitespace, equals find[0], and is the input cell otherwise;
\* the call ends the same for every 'replace' and for every 'find' with the
\* same first entry.
C10_SubstitutionMatcher ==
    (m_fn = "substitution" /\ MatcherEnded /\ HasFirstFind(m_find)) =>
        /\ m_pc = "returned"
        /\ Len(m_current) = Len(m_column)
        /\ \A r \in 1..Len(m_column) :
              m_current[r] = IF str_strip(m_column[r]) = FirstFind(m_find)
                             THEN <<>> ELSE m_column[r]
        /\ \A replace \in TemplatePool :
              apply_substitution_pattern(m_column, m_find, replace) = MatcherOutcome
        /\ \A find \in FindValues :
              (HasFirstFind(find) /\ FirstFind(find) = FirstFind(m_find)) =>
                  apply_substitution_pattern(m_column, find, m_replace) = MatcherOutcome

\* the matcher returned, from a 'find' list of two or more entries, a column
\* with a cell emptied though it differs from find[0] by its whitespace
C10_Witness ==
    /\ m_fn = "substitution" /\ m_pc = "returned"
    /\ m_find.kind = "list" /\ Len(m_find.v) >= 2
    /\ m_find.v[2] # m_find.v[1]
    /\ \E r \in 1..Len(m_column) :
          /\ m_column[r] # m_find.v[1]
          /\ m_current[r] = <<>>

=============================================================================
